---- MODULE Spec2Model ----
\* Model of greedy_path_demo.py: build_graph (a networkx DiGraph built from a
\* weighted edge list) and greedy_path (the greedy walk over it).
EXTENDS Integers, Sequences, FiniteSets, TLC

\* ------------------------------------------------------------------ bounds

\* Longest edge list handed to build_graph in the general specification.
MaxEdges == 3
\* Number of greedy_path calls made one after another in SampleSpec.
MaxCalls == 2

\* Node identifiers and weights of the general specification.
Nodes == {"A", "B", "C"}
Weights == {1, 2}

\* ------------------------------------------------------------ sample data

SAMPLE_EDGES ==
  << <<"A", "B", 4>>, <<"A", "C", 2>>, <<"B", "C", 4>>,
     <<"C", "B", 1>>, <<"B", "D", 2>>, <<"C", "D", 4>>,
     <<"B", "E", 3>>, <<"E", "D", 1>>, <<"C", "E", 5>> >>

START_NODE == "A"
END_NODE == "E"

\* Identifiers a caller may pass over the sample graph: its five nodes and
\* one identifier the graph does not hold.
SampleIds == {"A", "B", "C", "D", "E", "Z"}

\* ------------------------------------------------------------------ values

\* An edge triple (u, v, w) as the code writes it.
Src(e) == e[1]
Tgt(e) == e[2]
Wgt(e) == e[3]

\* Value of a local that was never assigned / of "no result".
None == "None"

EmptyGraph == [nodes |-> <<>>, adj |-> <<>>]

\* The nodes of an edge list in the order the list names them:
\* u1, v1, u2, v2, ...
Mentions(es) ==
  [k \in 1..(2 * Len(es)) |->
     IF k % 2 = 1 THEN Src(es[(k + 1) \div 2]) ELSE Tgt(es[k \div 2])]

NodeOrder == <<"A", "B", "C">>
Rank(n) == CHOOSE r \in DOMAIN NodeOrder : NodeOrder[r] = n

\* Node identifiers are opaque: the code only tests them for equality and
\* membership. Every edge list is therefore a renaming of one that names its
\* nodes for the first time in the order A, B, C, and only those are
\* enumerated; start and end still range over all of Nodes.
Canonical(es) ==
  LET ns == Mentions(es)
  IN \A k \in DOMAIN ns : Rank(ns[k]) <= 1 + Cardinality({ns[j] : j \in 1..(k - 1)})

\* All edge lists of length at most n over Nodes and Weights, up to renaming
\* of the nodes.
EdgeLists(n) ==
  {es \in UNION {[1..k -> Nodes \X Nodes \X Weights] : k \in 0..n} : Canonical(es)}

\* ------------------------------------------------------------------- state

VARIABLES
  edges,      \* the edge list given to build_graph
  graph,      \* the DiGraph
  start,      \* arguments of the call in progress
  end,
  pc,         \* "ready", "loop", or the call's outcome
  path,       \* locals of greedy_path
  current,
  visited,
  iters,      \* loop bodies executed by the call in progress
  result,     \* the value returned, None when nothing was returned
  stuckNode,  \* the node named by the Stuck error
  history     \* outcomes of the calls already finished

vars == <<edges, graph, start, end, pc, path, current, visited, iters,
          result, stuckNode, history>>

\* ------------------------------------------------------------- build_graph

\* Position of node n in the graph's node order (0 when absent).
NodeIndex(g, n) ==
  IF \E i \in DOMAIN g.nodes : g.nodes[i] = n
  THEN CHOOSE i \in DOMAIN g.nodes : g.nodes[i] = n
  ELSE 0

\* `n in graph`.
has_node(g, n) == NodeIndex(g, n) # 0

\* DiGraph.add_node for a node not yet present: appended to the node order
\* with an empty adjacency.
add_node(g, n) ==
  IF has_node(g, n) THEN g
  ELSE [nodes |-> Append(g.nodes, n), adj |-> Append(g.adj, <<>>)]

\* Row of an adjacency without the entry for v.
without(row, v) ==
  LET keep == {i \in DOMAIN row : row[i][1] # v}
      pos(n) == CHOOSE i \in keep : Cardinality({j \in keep : j <= i}) = n
  IN [n \in 1..Cardinality(keep) |-> row[pos(n)]]

\* Variant of set_weight: a key written again is deleted and re-inserted, so
\* it moves to the end of the row.
set_weight_reinsert(row, v, w) == Append(without(row, v), <<v, w>>)

\* adj[u][v] = w on an insertion-ordered dict: an existing key keeps its
\* position and takes the new weight, a new key goes last.
set_weight(row, v, w) ==
  IF \E i \in DOMAIN row : row[i][1] = v
  THEN [i \in DOMAIN row |-> IF row[i][1] = v THEN <<v, w>> ELSE row[i]]
  ELSE Append(row, <<v, w>>)

\* One triple of add_weighted_edges_from: both end nodes are added (u first),
\* then the edge u -> v is set to weight w.
add_edge(g, e) ==
  LET g1 == add_node(add_node(g, Src(e)), Tgt(e))
      iu == NodeIndex(g1, Src(e))
  IN [g1 EXCEPT !.adj[iu] = set_weight(g1.adj[iu], Tgt(e), Wgt(e))]

RECURSIVE add_weighted_edges_from(_, _)
add_weighted_edges_from(g, es) ==
  IF es = <<>> THEN g
  ELSE add_weighted_edges_from(add_edge(g, Head(es)), Tail(es))

build_graph(es) == add_weighted_edges_from(EmptyGraph, es)

\* graph.edges(n, data=True): the out-edges of n as (u, v, weight) triples in
\* adjacency order.
out_edges(g, n) ==
  LET row == g.adj[NodeIndex(g, n)]
  IN [i \in DOMAIN row |-> <<n, row[i][1], row[i][2]>>]

\* ------------------------------------------------------------- greedy_path

RECURSIVE SelectSeq2(_, _)
\* The list comprehension's filter, keeping order.
SelectSeq2(s, vis) ==
  IF s = <<>> THEN <<>>
  ELSE IF Tgt(Head(s)) \notin vis
       THEN <<Head(s)>> \o SelectSeq2(Tail(s), vis)
       ELSE SelectSeq2(Tail(s), vis)

\* Variant of outgoing: the edges are read from the start node on every
\* iteration instead of from the current node.
outgoing_from_start(g, cur, vis) == SelectSeq2(out_edges(g, start), vis)

\* Variant of outgoing: the `if v not in visited` filter is missing.
outgoing_unfiltered(g, cur, vis) == out_edges(g, cur)

\* outgoing = [(u, v, w) for u, v, data in graph.edges(current) if v not in visited]
outgoing(g, cur, vis) == SelectSeq2(out_edges(g, cur), vis)

RECURSIVE min_from(_, _)
\* min(..., key): scan left to right, replacing the best only by a strictly
\* smaller key.
min_from(best, rest) ==
  IF rest = <<>> THEN best
  ELSE min_from(IF Wgt(Head(rest)) < Wgt(best) THEN Head(rest) ELSE best,
                Tail(rest))

\* Variant of min_by_weight: the first candidate is taken without comparing
\* weights.
first_edge(out) == Head(out)

RECURSIVE max_from(_, _)
max_from(best, rest) ==
  IF rest = <<>> THEN best
  ELSE max_from(IF Wgt(Head(rest)) > Wgt(best) THEN Head(rest) ELSE best,
                Tail(rest))

\* Variant of min_by_weight: max() where min() was meant.
max_by_weight(out) == max_from(Head(out), Tail(out))

\* min(outgoing, key=lambda t: t[2]) of a non-empty list.
min_by_weight(out) == min_from(Head(out), Tail(out))

Terminal == {"returned", "InvalidArgument", "Stuck"}

\* State before a call: the graph is built, no local is assigned.
Fresh ==
  /\ pc = "ready"
  /\ start = None /\ end = None
  /\ path = <<>> /\ current = None /\ visited = {}
  /\ iters = 0 /\ result = None /\ stuckNode = None

Init ==
  /\ edges \in EdgeLists(MaxEdges)
  /\ graph = build_graph(edges)
  /\ history = <<>>
  /\ Fresh

InitSample ==
  /\ edges = SAMPLE_EDGES
  /\ graph = build_graph(edges)
  /\ history = <<>>
  /\ Fresh

\* Lines 59-60: a missing start or end raises before any local is assigned.
CallInvalid(s, e) ==
  /\ pc = "ready"
  /\ ~has_node(graph, s) \/ ~has_node(graph, e)
  /\ start' = s /\ end' = e
  /\ pc' = "InvalidArgument"
  /\ UNCHANGED <<edges, graph, path, current, visited, iters, result,
                 stuckNode, history>>

\* Variant of CallOk: only start is looked up in the graph.
CallOkStartOnly(s, e) ==
  /\ pc = "ready"
  /\ has_node(graph, s)
  /\ start' = s /\ end' = e
  /\ path' = <<>>
  /\ current' = s
  /\ visited' = {s}
  /\ pc' = "loop"
  /\ UNCHANGED <<edges, graph, iters, result, stuckNode, history>>

\* Lines 59-64: both nodes exist; the locals are initialised.
CallOk(s, e) ==
  /\ pc = "ready"
  /\ has_node(graph, s) /\ has_node(graph, e)
  /\ start' = s /\ end' = e
  /\ path' = <<>>
  /\ current' = s
  /\ visited' = {s}
  /\ pc' = "loop"
  /\ UNCHANGED <<edges, graph, iters, result, stuckNode, history>>

\* Variant of Stuck: the loop is left with `break` and the partial path is
\* returned.
StuckReturnsPartial ==
  /\ pc = "loop"
  /\ current # end
  /\ outgoing(graph, current, visited) = <<>>
  /\ pc' = "returned"
  /\ result' = path
  /\ iters' = iters + 1
  /\ UNCHANGED <<edges, graph, start, end, path, current, visited, stuckNode,
                 history>>

\* Lines 66-76: no candidate edge, the call raises naming `current`.
Stuck ==
  /\ pc = "loop"
  /\ current # end
  /\ outgoing(graph, current, visited) = <<>>
  /\ pc' = "Stuck"
  /\ stuckNode' = current
  /\ iters' = iters + 1
  /\ UNCHANGED <<edges, graph, start, end, path, current, visited, result,
                 history>>

\* Variant of Step: visited.add(v) is missing.
StepNoAdd ==
  /\ pc = "loop"
  /\ current # end
  /\ LET out == outgoing(graph, current, visited)
     IN /\ out # <<>>
        /\ LET e == min_by_weight(out)
           IN /\ path' = Append(path, e)
              /\ current' = Tgt(e)
  /\ iters' = iters + 1
  /\ UNCHANGED <<edges, graph, start, end, pc, visited, result, stuckNode,
                 history>>

\* Variant of Step: the body runs before the loop condition is tested.
StepDoWhile ==
  /\ pc = "loop"
  /\ LET out == outgoing(graph, current, visited)
     IN /\ out # <<>>
        /\ LET e == min_by_weight(out)
           IN /\ path' = Append(path, e)
              /\ current' = Tgt(e)
              /\ visited' = visited \cup {Tgt(e)}
  /\ iters' = iters + 1
  /\ UNCHANGED <<edges, graph, start, end, pc, result, stuckNode, history>>

\* Variant of Step: the edge taken is removed from the graph to mark it used.
StepConsume ==
  /\ pc = "loop"
  /\ current # end
  /\ LET out == outgoing(graph, current, visited)
     IN /\ out # <<>>
        /\ LET e == min_by_weight(out)
               iu == NodeIndex(graph, Src(e))
           IN /\ path' = Append(path, e)
              /\ current' = Tgt(e)
              /\ visited' = visited \cup {Tgt(e)}
              /\ graph' = [graph EXCEPT !.adj[iu] = without(graph.adj[iu], Tgt(e))]
  /\ iters' = iters + 1
  /\ UNCHANGED <<edges, start, end, pc, result, stuckNode, history>>

\* Lines 66-81: one full loop body.
Step ==
  /\ pc = "loop"
  /\ current # end
  /\ LET out == outgoing(graph, current, visited)
     IN /\ out # <<>>
        /\ LET e == min_by_weight(out)
           IN /\ path' = Append(path, e)
              /\ current' = Tgt(e)
              /\ visited' = visited \cup {Tgt(e)}
  /\ iters' = iters + 1
  /\ UNCHANGED <<edges, graph, start, end, pc, result, stuckNode, history>>

\* Lines 66, 83: the loop condition fails and path is returned.
Return ==
  /\ pc = "loop"
  /\ current = end
  /\ result' = path
  /\ pc' = "returned"
  /\ UNCHANGED <<edges, graph, start, end, path, current, visited, iters,
                 stuckNode, history>>

\* What the caller observes of a finished call.
Outcome ==
  [start |-> start, end |-> end, kind |-> pc, result |-> result,
   node |-> stuckNode]

\* The call's frame is dropped and the caller may call again.
Finish ==
  /\ pc \in Terminal
  /\ Len(history) + 1 < MaxCalls
  /\ history' = Append(history, Outcome)
  /\ pc' = "ready"
  /\ start' = None /\ end' = None
  /\ path' = <<>> /\ current' = None /\ visited' = {}
  /\ iters' = 0 /\ result' = None /\ stuckNode' = None
  /\ UNCHANGED <<edges, graph>>

Next ==
  \/ \E s, e \in Nodes : CallInvalid(s, e)
  \/ \E s, e \in Nodes : CallOk(s, e)
  \/ Step
  \/ Stuck
  \/ Return

NextSample ==
  \/ \E s, e \in SampleIds : CallInvalid(s, e)
  \/ \E s, e \in SampleIds : CallOk(s, e)
  \/ Step
  \/ Stuck
  \/ Return
  \/ Finish

Spec == Init /\ [][Next]_vars

SampleSpec == InitSample /\ [][NextSample]_vars

FairSpec == Init /\ [][Next]_vars /\ WF_vars(Next)

\* ------------------------------------------------- the edge list, read directly

\* The statements below describe the graph from the edge list given to
\* build_graph, not from the structure build_graph made of it.

\* Nodes the edge list mentions.
Mentioned == {Src(edges[k]) : k \in DOMAIN edges} \cup {Tgt(edges[k]) : k \in DOMAIN edges}

\* Positions of the ordered pair (u, v) in the edge list.
Positions(u, v) == {k \in DOMAIN edges : Src(edges[k]) = u /\ Tgt(edges[k]) = v}

Min(S) == CHOOSE x \in S : \A y \in S : x <= y
Max(S) == CHOOSE x \in S : \A y \in S : x >= y

\* Targets of the edges leaving u.
Successors(u) == {Tgt(edges[k]) : k \in {j \in DOMAIN edges : Src(edges[j]) = u}}

\* The weight the pair carries: the last one written.
WeightOf(u, v) == Wgt(edges[Max(Positions(u, v))])

\* The edges of the graph as triples.
GraphEdges ==
  {<<p[1], p[2], WeightOf(p[1], p[2])>> :
     p \in {q \in Mentioned \X Mentioned : Positions(q[1], q[2]) # {}}}

RECURSIVE ReachFrom(_)
\* Nodes reachable from the set S along edges.
ReachFrom(S) ==
  LET T == S \cup UNION {Successors(u) : u \in S}
  IN IF T = S THEN S ELSE ReachFrom(T)

Reachable(s, e) == e \in ReachFrom({s})

\* Targets of the first n edges of the path.
TargetsOf(p, n) == {Tgt(p[j]) : j \in 1..n}

\* visited at the moment edge i of the path was chosen.
VisitedBefore(i) == {start} \cup TargetsOf(path, i - 1)

\* The call has entered the traversal (lines 62 onwards).
Traversing == pc \in {"loop", "returned", "Stuck"}

\* ---------------------------------------------------------------------- C1

\* C1: a non-empty returned path is a connected chain from start to end, and
\* every edge of it is an edge of the graph with the graph's weight.
C1_ReturnedPathIsChain ==
  (pc = "returned" /\ result # <<>>) =>
    /\ Src(result[1]) = start
    /\ \A i \in 1..(Len(result) - 1) : Tgt(result[i]) = Src(result[i + 1])
    /\ Tgt(result[Len(result)]) = end
    /\ \A i \in DOMAIN result : result[i] \in GraphEdges

\* A path of two edges has been returned.
C1_Witness == pc = "returned" /\ Len(result) >= 2

\* ---------------------------------------------------------------------- C2

\* C2: the walk never revisits a node: targets are pairwise distinct and differ
\* from start; throughout the loop visited = {start} + targets so far and
\* current is in visited.
C2_NoRevisit ==
  Traversing =>
    /\ visited = {start} \cup TargetsOf(path, Len(path))
    /\ current \in visited
    /\ \A i \in DOMAIN path : Tgt(path[i]) # start
    /\ \A i, j \in DOMAIN path : i # j => Tgt(path[i]) # Tgt(path[j])
    /\ pc = "returned" => result = path

\* A path was returned although some node on it had an edge back into the
\* visited set.
C2_Witness ==
  /\ pc = "returned"
  /\ \E i \in DOMAIN path : \E v \in Successors(Src(path[i])) : v \in VisitedBefore(i)

\* ---------------------------------------------------------------------- C3

\* C3: every chosen edge is no heavier than any edge leaving the same node to
\* a node unvisited at the moment of the choice.
C3_LocallyCheapest ==
  Traversing =>
    \A i \in DOMAIN path :
      \A v \in Successors(Src(path[i])) \ VisitedBefore(i) :
        Wgt(path[i]) <= WeightOf(Src(path[i]), v)

\* An edge was chosen over a strictly heavier candidate that comes before it
\* in the edge list.
C3_Witness ==
  /\ Traversing
  /\ \E i \in DOMAIN path :
       \E v \in Successors(Src(path[i])) \ VisitedBefore(i) :
         /\ Wgt(path[i]) < WeightOf(Src(path[i]), v)
         /\ Min(Positions(Src(path[i]), v)) < Min(Positions(Src(path[i]), Tgt(path[i])))

\* ---------------------------------------------------------------------- C4

\* Candidates when edge i of the path was chosen.
CandidatesAt(i) == Successors(Src(path[i])) \ VisitedBefore(i)

\* The members of cand reached from u by an edge of least weight.
Ties(u, cand) ==
  LET least == Min({WeightOf(u, v) : v \in cand})
  IN {v \in cand : WeightOf(u, v) = least}

TiesAt(i) == Ties(Src(path[i]), CandidatesAt(i))

\* Where the pair (u, v) first appears in the edge list.
FirstPos(u, v) == Min(Positions(u, v))

\* Where the edge (u, v, w) of the graph, with the weight it carries, first
\* appears in the edge list.
EdgePos(u, v) == Min({k \in Positions(u, v) : Wgt(edges[k]) = WeightOf(u, v)})

\* C4 as stated: among the candidates of least weight the chosen edge is the
\* one inserted first in the edge list, also when a pair is inserted twice.
C4_FirstInsertedEdge ==
  Traversing =>
    \A i \in DOMAIN path :
      LET u == Src(path[i])
          ties == TiesAt(i)
      IN /\ Tgt(path[i]) \in ties
         /\ \A v \in ties : EdgePos(u, Tgt(path[i])) <= EdgePos(u, v)

\* C4 amended: among the candidates of least weight the chosen edge is the one
\* whose (source, target) pair appears first in the edge list; a pair inserted
\* again keeps the place of its first insertion and carries its last weight.
C4_FirstInsertedPair ==
  Traversing =>
    \A i \in DOMAIN path :
      LET u == Src(path[i])
          ties == TiesAt(i)
      IN /\ Tgt(path[i]) \in ties
         /\ Wgt(path[i]) = WeightOf(u, Tgt(path[i]))
         /\ \A v \in ties : FirstPos(u, Tgt(path[i])) <= FirstPos(u, v)

\* A tie was broken in favour of a pair the edge list inserts twice, whose
\* last insertion comes after the other tied edge.
C4_Witness ==
  /\ Traversing
  /\ \E i \in DOMAIN path :
       \E v \in TiesAt(i) :
         /\ v # Tgt(path[i])
         /\ Cardinality(Positions(Src(path[i]), Tgt(path[i]))) >= 2
         /\ Max(Positions(Src(path[i]), Tgt(path[i]))) > FirstPos(Src(path[i]), v)

\* ---------------------------------------------------------------------- C5

\* C5: a call whose start or end is not a node of the graph ends with
\* InvalidArgument before any traversal step: no local is assigned, no loop
\* body runs, nothing is returned, and the failure is not Stuck.
C5_InvalidArgument ==
  (pc # "ready" /\ (start \notin Mentioned \/ end \notin Mentioned)) =>
    /\ pc = "InvalidArgument"
    /\ iters = 0 /\ path = <<>> /\ visited = {} /\ current = None
    /\ result = None /\ stuckNode = None

\* start = end, and that node is absent from a graph that has nodes.
C5_Witness ==
  /\ pc = "InvalidArgument"
  /\ start = end
  /\ start \notin Mentioned
  /\ Mentioned # {}

\* ---------------------------------------------------------------------- C6

\* C6: when start and end are nodes and end cannot be reached from start, a
\* finished call has failed with Stuck; the error names the node that was
\* current, every edge leaving that node leads to a visited node, and no path
\* was returned.
C6_UnreachableIsStuck ==
  (/\ pc \in Terminal
   /\ start \in Mentioned /\ end \in Mentioned
   /\ ~Reachable(start, end)) =>
    /\ pc = "Stuck"
    /\ stuckNode = current
    /\ Successors(stuckNode) \subseteq visited
    /\ result = None

\* Stuck on an unreachable end after at least one edge had been appended.
C6_Witness ==
  /\ pc = "Stuck"
  /\ ~Reachable(start, end)
  /\ Len(path) >= 1

\* ---------------------------------------------------------------------- C7

SamplePath == << <<"A", "C", 2>>, <<"C", "B", 1>>, <<"B", "D", 2>> >>

\* C7: on SAMPLE_EDGES from A to E the walk appends (A,C,2), (C,B,1), (B,D,2)
\* in that order and then fails with Stuck at D; E is never reached and
\* nothing is returned.
C7_SampleStuckAtD ==
  (edges = SAMPLE_EDGES /\ start = START_NODE /\ end = END_NODE) =>
    /\ pc \in {"loop", "Stuck"}
    /\ path = SubSeq(SamplePath, 1, Len(path))
    /\ current # END_NODE
    /\ result = None
    /\ pc = "Stuck" => (stuckNode = "D" /\ path = SamplePath)
    /\ (pc = "loop" /\ path = SamplePath) => ENABLED Stuck

\* The sample call has failed.
C7_Witness ==
  /\ edges = SAMPLE_EDGES /\ start = START_NODE /\ end = END_NODE
  /\ pc = "Stuck"

\* ---------------------------------------------------------------------- C8

\* C8: with start = end a node of the graph, the call returns the empty path
\* and no loop body runs.
C8_StartIsEnd ==
  (pc # "ready" /\ start = end /\ start \in Mentioned) =>
    /\ pc \in {"loop", "returned"}
    /\ iters = 0 /\ path = <<>>
    /\ pc = "loop" => (ENABLED Return /\ ~ENABLED Step /\ ~ENABLED Stuck)
    /\ pc = "returned" => result = <<>>

\* Returned at a node whose only edges lead back to itself.
C8_Witness ==
  /\ pc = "returned"
  /\ start = end
  /\ Successors(start) = {start}

\* ---------------------------------------------------------------------- C9

\* C9: a call leaves the graph as build_graph made it, and calls with the same
\* start and end have the same outcome, whatever calls came between.
C9_Pure ==
  /\ graph = build_graph(edges)
  /\ \A i, j \in DOMAIN history :
       (history[i].start = history[j].start /\ history[i].end = history[j].end)
         => history[i] = history[j]
  /\ pc \in Terminal =>
       \A i \in DOMAIN history :
         (history[i].start = start /\ history[i].end = end) => history[i] = Outcome

\* A call that appended edges was repeated with the same arguments.
C9_Witness ==
  /\ pc \in Terminal
  /\ Len(path) >= 1
  /\ \E i \in DOMAIN history : history[i].start = start /\ history[i].end = end

\* --------------------------------------------------------------------- C10

\* Loop bodies a call over this graph may run.
IterationBound == IF Mentioned = {} THEN 0 ELSE Cardinality(Mentioned) - 1

\* C10 (safety part): every loop body either fails with Stuck or adds one new
\* node to visited, so at most |nodes| - 1 bodies run.
C10_Bounded ==
  /\ pc \in {"ready", "loop"} \cup Terminal
  /\ pc = "InvalidArgument" => iters = 0
  /\ Traversing =>
       /\ visited \subseteq Mentioned
       /\ iters = Cardinality(visited) - 1 + (IF pc = "Stuck" THEN 1 ELSE 0)
       /\ iters <= IterationBound

\* C10: every call ends, in a returned path, InvalidArgument or Stuck, within
\* the iteration bound.
C10_Terminates == []C10_Bounded /\ <>(pc \in Terminal)

\* A call ended having run exactly |nodes| - 1 loop bodies on a graph of
\* three nodes.
C10_Witness ==
  /\ pc \in Terminal
  /\ Cardinality(Mentioned) = 3
  /\ iters = IterationBound

====
